---- MODULE Spec2Model ----
(***************************************************************************)
(* Model of cardDatabase/static/js/database_base.js: the search page's     *)
(* event handlers (panel toggles, radio-like checkbox groups, form         *)
(* submission to a query string, bulk set selection).                      *)
(*                                                                         *)
(* Strings whose characters matter (set names, option labels, selectors,   *)
(* query strings) are sequences of one-character strings.                  *)
(***************************************************************************)
EXTENDS Integers, Sequences, FiniteSets, TLC

VARIABLES
    \* ---- bulk set selection (lines 78-104) ----
    FOWDB_SET_JSON,   \* page-injected catalog: [clusters |-> Seq([sets |-> Seq([name |-> string])])]
    active,           \* active[k]: the li parent of the k-th span.filtrable has class 'active'
    last_op,          \* history: the last handler run on the sets select
    prev_op,          \* history: the handler run before last_op
    pre_active,       \* history: value of active when last_op started
    visit_log,        \* history: one record per inner-loop iteration of the last select_format_sets
    \* ---- search mode toggle (lines 8-23) ----
    FOWDB_IS_MOBILE,  \* page-injected flag
    basic_visible,    \* #basic-search is shown
    advanced_visible, \* #advanced-search is shown
    toggles_class,    \* class list of #search-toggles
    focused,          \* the element that has focus
    toggle_log,       \* history: the last two toggle clicks with the panel state before each
    \* ---- radio-like checkbox groups (lines 51-58) ----
    checked,          \* checked[g][i]: the i-th checkbox of group g is checked
    ever_checked,     \* history: ever_checked[g]: some change event of group g checked a box
    last_change,      \* history: the last change event and the group state before it
    \* ---- form submission (lines 70-76) ----
    form,             \* the form element: id and its fields in tree order
    picked,           \* history: option indices of the multi-select in the order the user selected them
    location,         \* window.location after the last navigation (<<>>: still on the page)
    nav_count,        \* number of history-replacing navigations made
    default_prevented \* event.preventDefault() was called on the submit event

setVars    == <<FOWDB_SET_JSON, active, last_op, prev_op, pre_active, visit_log>>
toggleVars == <<FOWDB_IS_MOBILE, basic_visible, advanced_visible, toggles_class, focused, toggle_log>>
checkVars  == <<checked, ever_checked, last_change>>
formVars   == <<form, picked, location, nav_count, default_prevented>>
vars       == <<setVars, toggleVars, checkVars, formVars>>

----------------------------------------------------------------------------
(* Bounds *)
MaxClusters == 3      \* clusters in the catalog
MaxSets     == 2      \* sets per cluster

----------------------------------------------------------------------------
(* Characters and strings *)
QUOTE     == "'"
BACKSLASH == "\\"

\* Labels of the span.filtrable options rendered in .sets-select, in DOM order.
\* "A2" contains "A" as a proper substring (as 'Alice Origin II' contains
\* 'Alice Origin'); S'W's has two single quotes.
OptionLabels ==
    << <<"A">>,
       <<"A", "2">>,
       <<"S", "'", "W", "'", "s">> >>

Options == 1..Len(OptionLabels)

\* Set names the catalog may use: every label, plus a', which has one single
\* quote, differs from label "A" in case and is contained in no label.
SetNames == {OptionLabels[k] : k \in Options} \cup { <<"a", "'">> }

\* text.indexOf(sub) > -1
Contains(text, sub) ==
    \E off \in 0..(Len(text) - Len(sub)) :
        \A p \in 1..Len(sub) : text[off + p] = sub[p]

\* First index of character c in s, 0 when absent.
IndexOf(s, c) ==
    IF \E p \in 1..Len(s) : s[p] = c
    THEN CHOOSE p \in 1..Len(s) : s[p] = c /\ \A q \in 1..(p - 1) : s[q] # c
    ELSE 0

\* name.replace("'", "\\'"): a string pattern replaces the FIRST occurrence only.
ReplaceQuote(name) ==
    LET p == IndexOf(name, QUOTE)
    IN  IF p = 0 THEN name
        ELSE SubSeq(name, 1, p - 1) \o <<BACKSLASH, QUOTE>> \o SubSeq(name, p + 1, Len(name))

RECURSIVE QuotedBody(_, _)
\* The selector engine reads :contains('...') as a quoted argument when the
\* text between the outer quotes is a run of escaped characters and of
\* characters other than backslash and quote: (?:\\.|[^\\'])*
QuotedBody(s, p) ==
    IF p > Len(s) THEN TRUE
    ELSE IF s[p] = BACKSLASH THEN p + 1 <= Len(s) /\ QuotedBody(s, p + 2)
    ELSE IF s[p] = QUOTE THEN FALSE
    ELSE QuotedBody(s, p + 1)

RECURSIVE Unescape(_)
\* The selector engine drops the backslash of an escaped character.
Unescape(s) ==
    IF s = <<>> THEN <<>>
    ELSE IF s[1] = BACKSLASH /\ Len(s) >= 2 THEN <<s[2]>> \o Unescape(SubSeq(s, 3, Len(s)))
    ELSE <<s[1]>> \o Unescape(Tail(s))

\* The text :contains('<arg>') searches for.  A well-formed quoted argument
\* gives its unescaped body; otherwise the whole argument, outer quotes
\* included, is read as an unquoted one.
ContainsText(arg) ==
    IF QuotedBody(arg, 1) THEN Unescape(arg)
    ELSE Unescape(<<QUOTE>> \o arg \o <<QUOTE>>)

\* $(".sets-select .mdb-select ul span.filtrable:contains('<arg>')"): every
\* option whose label contains the text.
SetMdbSelect(arg) == {k \in Options : Contains(OptionLabels[k], ContainsText(arg))}

\* set_mdb_select.parent().hasClass('active'): true when ANY matched
\* element's parent carries the class.
HasClassActive(sel, act) == \E k \in sel : act[k]

\* set_mdb_select.click(): a click on EVERY matched option; the widget
\* toggles the clicked option.
Click(sel, act) == [k \in Options |-> IF k \in sel THEN ~act[k] ELSE act[k]]

----------------------------------------------------------------------------
(* select_format_sets *)

RECURSIVE select_format_sets_from(_, _, _, _, _)
\* The two nested loops from position (i, j); st = [active, log].
select_format_sets_from(format_clusters, set_active, i, j, st) ==
    IF i > Len(format_clusters) THEN st
    ELSE LET cluster == format_clusters[i] IN
         IF j > Len(cluster.sets)
         THEN select_format_sets_from(format_clusters, set_active, i + 1, 1, st)
         ELSE LET format_set     == cluster.sets[j]
                  arg            == ReplaceQuote(format_set.name)
                  set_mdb_select == SetMdbSelect(arg)
                  has            == HasClassActive(set_mdb_select, st.active)
                  doClick        == (set_active /\ ~has) \/ (~set_active /\ has)
                  entry          == [name    |-> format_set.name,
                                     arg     |-> arg,
                                     located |-> set_mdb_select,
                                     before  |-> st.active,
                                     clicked |-> IF doClick THEN set_mdb_select ELSE {}]
              IN  select_format_sets_from(format_clusters, set_active, i, j + 1,
                      [active |-> IF doClick THEN Click(set_mdb_select, st.active) ELSE st.active,
                       log    |-> Append(st.log, entry)])

select_format_sets(format_clusters, set_active, act) ==
    select_format_sets_from(format_clusters, set_active, 1, 1, [active |-> act, log |-> <<>>])

\* Array.prototype.slice(start, end) on a 1-based sequence; a negative start
\* counts from the end.
Slice(s, start, end) ==
    LET n  == Len(s)
        lo == IF start < 0 THEN (IF n + start < 0 THEN 0 ELSE n + start)
              ELSE (IF start > n THEN n ELSE start)
        hi == IF end < 0 THEN (IF n + end < 0 THEN 0 ELSE n + end)
              ELSE (IF end > n THEN n ELSE end)
    IN  SubSeq(s, lo + 1, hi)

NF_clusters ==
    Slice(FOWDB_SET_JSON.clusters, Len(FOWDB_SET_JSON.clusters) - 2, Len(FOWDB_SET_JSON.clusters))

\* #new-frontiers-select click: the last two clusters, set_active = true.
NewFrontiersSelectClick ==
    LET r == select_format_sets(NF_clusters, TRUE, active)
    IN  /\ active' = r.active
        /\ visit_log' = r.log
        /\ pre_active' = active
        /\ prev_op' = last_op
        /\ last_op' = "new-frontiers"
        /\ UNCHANGED <<FOWDB_SET_JSON, toggleVars, checkVars, formVars>>

\* #wanderer-select click: every cluster, set_active = true.
WandererSelectClick ==
    LET r == select_format_sets(FOWDB_SET_JSON.clusters, TRUE, active)
    IN  /\ active' = r.active
        /\ visit_log' = r.log
        /\ pre_active' = active
        /\ prev_op' = last_op
        /\ last_op' = "wanderer"
        /\ UNCHANGED <<FOWDB_SET_JSON, toggleVars, checkVars, formVars>>

\* #clear-all-sets click: every cluster, set_active = false.
ClearAllSetsClick ==
    LET r == select_format_sets(FOWDB_SET_JSON.clusters, FALSE, active)
    IN  /\ active' = r.active
        /\ visit_log' = r.log
        /\ pre_active' = active
        /\ prev_op' = last_op
        /\ last_op' = "clear-all"
        /\ UNCHANGED <<FOWDB_SET_JSON, toggleVars, checkVars, formVars>>

\* The user clicks one option of the sets select: the widget toggles it.
UserClickOption ==
    \E k \in Options :
        /\ active' = Click({k}, active)
        /\ visit_log' = <<>>
        /\ pre_active' = active'
        /\ prev_op' = "none"
        /\ last_op' = "user"
        /\ UNCHANGED <<FOWDB_SET_JSON, toggleVars, checkVars, formVars>>

\* Catalogs: up to MaxClusters clusters of up to MaxSets sets; a set is listed once.
ClusterValues ==
    UNION {[1..n -> [name : SetNames]] : n \in 0..MaxSets}

NamePositions(clusters) ==
    {pos \in (1..Len(clusters)) \X (1..MaxSets) : pos[2] <= Len(clusters[pos[1]].sets)}

ListedOnce(clusters) ==
    \A p, q \in NamePositions(clusters) :
        clusters[p[1]].sets[p[2]].name = clusters[q[1]].sets[q[2]].name => p = q

Catalogs ==
    {c \in UNION {[1..n -> [sets : ClusterValues]] : n \in 0..MaxClusters} : ListedOnce(c)}

SetsIdle ==
    /\ FOWDB_SET_JSON = [clusters |-> <<>>]
    /\ active = [k \in Options |-> FALSE]
    /\ last_op = "none"
    /\ prev_op = "none"
    /\ pre_active = [k \in Options |-> FALSE]
    /\ visit_log = <<>>

InitSets ==
    /\ FOWDB_SET_JSON \in [clusters : Catalogs]
    /\ active = [k \in Options |-> FALSE]
    /\ last_op = "none"
    /\ prev_op = "none"
    /\ pre_active = active
    /\ visit_log = <<>>

ToggleIdle ==
    /\ FOWDB_IS_MOBILE = FALSE
    /\ basic_visible = TRUE
    /\ advanced_visible = FALSE
    /\ toggles_class = {"basic-showing"}
    /\ focused = "none"
    /\ toggle_log = <<>>

CheckIdle ==
    /\ checked = <<>>
    /\ ever_checked = <<>>
    /\ last_change = <<>>

FormIdle ==
    /\ form = <<>>
    /\ picked = <<>>
    /\ location = <<>>
    /\ nav_count = 0
    /\ default_prevented = FALSE

NextSets ==
    \/ NewFrontiersSelectClick
    \/ WandererSelectClick
    \/ ClearAllSetsClick
    \/ UserClickOption

InitSetsPage == InitSets /\ ToggleIdle /\ CheckIdle /\ FormIdle

SpecSets == InitSetsPage /\ [][NextSets]_vars

----------------------------------------------------------------------------
(* Properties of select_format_sets *)

IsPreset(op) == op \in {"new-frontiers", "wanderer", "clear-all"}

\* The clusters and the target the call sites pass to select_format_sets.
ClustersOf(op) == IF op = "new-frontiers" THEN NF_clusters ELSE FOWDB_SET_JSON.clusters
TargetOf(op)   == op # "clear-all"

\* The names of the sets listed in the clusters.
NamedIn(clusters) ==
    {clusters[pos[1]].sets[pos[2]].name : pos \in NamePositions(clusters)}

RECURSIVE FlatNames(_)
\* The names of the clusters' sets, cluster by cluster, in order.
FlatNames(clusters) ==
    IF clusters = <<>> THEN <<>>
    ELSE [j \in 1..Len(clusters[1].sets) |-> clusters[1].sets[j].name] \o FlatNames(Tail(clusters))

\* Every single quote of a selector argument is preceded by a backslash.
AllQuotesEscaped(arg) ==
    \A p \in 1..Len(arg) : arg[p] = QUOTE => (p > 1 /\ arg[p - 1] = BACKSLASH)

\* C1: when a preset handler's select_format_sets returns, every option whose
\* label is the name of a set listed in the supplied clusters has active state
\* equal to set_active.
C1_NamedOptionsReachTarget ==
    IsPreset(last_op) =>
        \A k \in Options :
            OptionLabels[k] \in NamedIn(ClustersOf(last_op)) => active[k] = TargetOf(last_op)

\* C2: select_format_sets leaves unchanged the active state of every option
\* whose label is not the name of a set listed in the supplied clusters.
C2_UnnamedOptionsUntouched ==
    IsPreset(last_op) =>
        \A k \in Options :
            OptionLabels[k] \notin NamedIn(ClustersOf(last_op)) => active[k] = pre_active[k]

\* C3: a second consecutive call with the same clusters and the same target
\* performs no click.
C3_SecondCallClicksNothing ==
    (IsPreset(last_op) /\ prev_op = last_op) =>
        \A n \in 1..Len(visit_log) : visit_log[n].clicked = {}

\* C4: select_format_sets(clusters, true) followed by
\* select_format_sets(clusters, false) leaves every named set inactive.
C4_SelectThenClearLeavesNoneActive ==
    (prev_op = "wanderer" /\ last_op = "clear-all") =>
        \A k \in Options :
            OptionLabels[k] \in NamedIn(FOWDB_SET_JSON.clusters) => ~active[k]

\* C9: the option of a set is located by exact equality of its label with the
\* set's name: an option whose label merely contains the name is not located
\* (hence neither consulted nor clicked).
C9_LocatedByExactLabel ==
    \A n \in 1..Len(visit_log) :
        \A k \in visit_log[n].located : OptionLabels[k] = visit_log[n].name

\* C10: every set of every supplied cluster is visited in order, a name that
\* matches no option produces no click, and in every lookup every single
\* quote of the name is escaped.
C10_AllVisitedAllQuotesEscaped ==
    IsPreset(last_op) =>
        /\ [n \in 1..Len(visit_log) |-> visit_log[n].name] = FlatNames(ClustersOf(last_op))
        /\ \A n \in 1..Len(visit_log) :
              /\ AllQuotesEscaped(visit_log[n].arg)
              /\ (visit_log[n].located = {} => visit_log[n].clicked = {})

----------------------------------------------------------------------------
(* Radio-like checkbox groups *)

BoxesPerGroup == 2    \* checkboxes (labels) in each group

\* The containers whose inputs get the change handler.
Groups == {"select-text-exactness", "select-sort-by", "colour-match", "colour-combination"}
Boxes  == 1..BoxesPerGroup

\* The handler leaves the siblings alone whatever the box became.
GroupAfterChange_NoUncheck(group, i) == group

\* The change handler on box i of a group whose boxes are in state group
\* (box i already has its new value): if (this.checked), the input of every
\* sibling label gets prop('checked', false).
GroupAfterChange(group, i) ==
    IF group[i]
    THEN [j \in Boxes |-> IF j = i THEN group[j] ELSE FALSE]
    ELSE group

\* The user clicks checkbox i of group g: the browser flips it, then fires change.
CheckboxChange ==
    \E g \in Groups, i \in Boxes :
        LET flipped == [checked[g] EXCEPT ![i] = ~checked[g][i]]
        IN  /\ checked' = [checked EXCEPT ![g] = GroupAfterChange(flipped, i)]
            /\ ever_checked' = [ever_checked EXCEPT ![g] = @ \/ flipped[i]]
            /\ last_change' = <<[group |-> g, box |-> i, before |-> checked]>>
            /\ UNCHANGED <<setVars, toggleVars, formVars>>

\* The page may be rendered with any boxes checked.
InitChecks ==
    /\ checked \in [Groups -> [Boxes -> BOOLEAN]]
    /\ ever_checked = [g \in Groups |-> FALSE]
    /\ last_change = <<>>

NextChecks == CheckboxChange

InitChecksPage == SetsIdle /\ ToggleIdle /\ InitChecks /\ FormIdle

SpecChecks == InitChecksPage /\ [][NextChecks]_vars

CheckedIn(g) == {i \in Boxes : checked[g][i]}

\* C5: in every group, once a change event has checked a box at most one box
\* of the group is checked; a change that checks a box leaves every other box
\* of its group unchecked; a change that unchecks a box changes no other box.
C5_RadioLikeGroups ==
    /\ \A g \in Groups : ever_checked[g] => Cardinality(CheckedIn(g)) <= 1
    /\ \A n \in 1..Len(last_change) :
          LET g == last_change[n].group
              i == last_change[n].box
              b == last_change[n].before
          IN  /\ checked[g][i] = ~b[g][i]
              /\ checked[g][i] => \A j \in Boxes \ {i} : ~checked[g][j]
              /\ ~checked[g][i] => \A j \in Boxes \ {i} : checked[g][j] = b[g][j]

\* A box was checked while a sibling was checked, and the sibling is now unchecked.
C5_Witness_SiblingForcedOff ==
    /\ Len(last_change) = 1
    /\ LET g == last_change[1].group
           i == last_change[1].box
           b == last_change[1].before
       IN  /\ checked[g][i]
           /\ \E j \in Boxes \ {i} : b[g][j] /\ ~checked[g][j]

----------------------------------------------------------------------------
(* Search mode toggle *)

AddClass(classes, c) == classes \cup {c}

\* removeClass that removes nothing.
RemoveClass_Keeps(classes, c) == classes

RemoveClass(classes, c) == classes \ {c}

\* focusOnInit(el): el.focus() unless FOWDB_IS_MOBILE.
focusOnInit(el) == IF ~FOWDB_IS_MOBILE THEN el ELSE focused

\* Panel visibility and indicator classes, as one value.
PanelState == [basic |-> basic_visible, advanced |-> advanced_visible, class |-> toggles_class]

\* The last two toggle clicks.
Logged(op) ==
    LET e == [op |-> op, before |-> PanelState]
    IN  IF Len(toggle_log) < 2 THEN Append(toggle_log, e) ELSE <<toggle_log[2], e>>

\* #advanced-search-toggle click
AdvancedSearchToggleClick ==
    /\ nav_count = 0
    /\ basic_visible' = FALSE
    /\ advanced_visible' = TRUE
    /\ toggles_class' = AddClass(RemoveClass(toggles_class, "basic-showing"), "advanced-showing")
    /\ focused' = focusOnInit("#advanced-form input[name=generic_text]")
    /\ toggle_log' = Logged("advanced")
    /\ UNCHANGED <<FOWDB_IS_MOBILE, setVars, checkVars, formVars>>

\* #basic-search-toggle click
BasicSearchToggleClick ==
    /\ nav_count = 0
    /\ basic_visible' = TRUE
    /\ advanced_visible' = FALSE
    /\ toggles_class' = RemoveClass(AddClass(toggles_class, "basic-showing"), "advanced-showing")
    /\ focused' = focusOnInit("#basic-form input[name=generic_text]")
    /\ toggle_log' = Logged("basic")
    /\ UNCHANGED <<FOWDB_IS_MOBILE, setVars, checkVars, formVars>>

\* The page loads in basic mode; the last statement of the ready handler
\* focuses the basic form's text input unless mobile.
InitToggle ==
    /\ FOWDB_IS_MOBILE \in BOOLEAN
    /\ basic_visible = TRUE
    /\ advanced_visible = FALSE
    /\ toggles_class = {"basic-showing"}
    /\ focused = IF ~FOWDB_IS_MOBILE THEN "#basic-form input[type=text]" ELSE "none"
    /\ toggle_log = <<>>

BasicState ==
    [basic |-> TRUE, advanced |-> FALSE, class |-> {"basic-showing"}]

ShowingClasses == {"basic-showing", "advanced-showing"}

\* C8: exactly one panel is visible and the container carries exactly the
\* matching indicator class; advanced toggle then basic toggle from the basic
\* state restores the basic state.
C8_ToggleRoundTrip ==
    /\ basic_visible # advanced_visible
    /\ toggles_class \cap ShowingClasses =
          (IF basic_visible THEN {"basic-showing"} ELSE {"advanced-showing"})
    /\ (/\ Len(toggle_log) = 2
        /\ toggle_log[1].op = "advanced"
        /\ toggle_log[2].op = "basic"
        /\ toggle_log[1].before = BasicState) => PanelState = toggle_log[1].before

\* The basic state, reached again by advanced toggle then basic toggle.
C8_Witness_BackToBasic ==
    /\ Len(toggle_log) = 2
    /\ toggle_log[1].op = "advanced"
    /\ toggle_log[2].op = "basic"
    /\ toggle_log[1].before = BasicState
    /\ toggle_log[2].before = [basic |-> FALSE, advanced |-> TRUE, class |-> {"advanced-showing"}]
    /\ PanelState = BasicState

----------------------------------------------------------------------------
(* Form submission *)

NumRaceOptions == 3   \* options of the multi-select

\* Strings of the page, character by character.
STR_generic_text  == <<"g", "e", "n", "e", "r", "i", "c", "_", "t", "e", "x", "t">>
STR_race          == <<"r", "a", "c", "e">>
STR_exact         == <<"e", "x", "a", "c", "t">>
STR_form_type     == <<"f", "o", "r", "m", "_", "t", "y", "p", "e">>
STR_on            == <<"o", "n">>
STR_basic_form    == <<"b", "a", "s", "i", "c", "-", "f", "o", "r", "m">>
STR_advanced_form == <<"a", "d", "v", "a", "n", "c", "e", "d", "-", "f", "o", "r", "m">>
STR_search        == <<"/", "s", "e", "a", "r", "c", "h", "/">>
STR_dragon        == <<"d", "r", "a", "g", "o", "n">>
STR_a_b           == <<"a", " ", "b">>
STR_amp_eq        == <<"a", "&", "b", "=", "c">>
STR_Fire          == <<"F", "i", "r", "e">>
STR_Wind          == <<"W", "i", "n", "d">>
STR_Water         == <<"W", "a", "t", "e", "r">>
STR_Light         == <<"L", "i", "g", "h", "t">>

\* What the user may type into the text input.
TextValues == {<<>>, STR_dragon, STR_a_b, STR_amp_eq}

\* The option values of the multi-select, in document order.
RaceValues  == <<STR_Fire, STR_Wind, STR_Water, STR_Light>>
RaceOptions == 1..NumRaceOptions

FormIds == {STR_basic_form, STR_advanced_form}

\* The fields of the form: a text input, a checkbox and a multi-select.
TextField(value)      == [kind |-> "text", name |-> STR_generic_text, value |-> value,
                          checked |-> FALSE, selected |-> {}]
CheckboxField(name)   == [kind |-> "checkbox", name |-> name, value |-> STR_on,
                          checked |-> FALSE, selected |-> {}]
SelectMultipleField   == [kind |-> "select-multiple", name |-> STR_race, value |-> <<>>,
                          checked |-> FALSE, selected |-> {}]

\* Layouts: the three fields in either tree order; the checkbox may be named form_type.
Layouts ==
    {<<TextField(<<>>), CheckboxField(n), SelectMultipleField>> : n \in {STR_exact, STR_form_type}}
    \cup
    {<<SelectMultipleField, CheckboxField(n), TextField(<<>>)>> : n \in {STR_exact, STR_form_type}}

RECURSIVE SelectedValues(_, _)
\* The values of the selected options from option k on, in document order.
SelectedValues(selected, k) ==
    IF k > NumRaceOptions THEN <<>>
    ELSE (IF k \in selected THEN <<RaceValues[k]>> ELSE <<>>) \o SelectedValues(selected, k + 1)

\* An unchecked checkbox is submitted with an empty value.
FieldEntries_UncheckedSent(f) ==
    IF f.kind = "text" THEN <<[name |-> f.name, value |-> f.value]>>
    ELSE IF f.kind = "checkbox"
         THEN <<[name |-> f.name, value |-> IF f.checked THEN f.value ELSE <<>>]>>
    ELSE [n \in 1..Len(SelectedValues(f.selected, 1)) |->
             [name |-> f.name, value |-> SelectedValues(f.selected, 1)[n]]]

\* The entries one field contributes to new FormData(form): a text input its
\* value, a checkbox its value when checked, a multi-select one entry per
\* selected option in document order.
FieldEntries(f) ==
    IF f.kind = "text" THEN <<[name |-> f.name, value |-> f.value]>>
    ELSE IF f.kind = "checkbox"
         THEN (IF f.checked THEN <<[name |-> f.name, value |-> f.value]>> ELSE <<>>)
    ELSE [n \in 1..Len(SelectedValues(f.selected, 1)) |->
             [name |-> f.name, value |-> SelectedValues(f.selected, 1)[n]]]

RECURSIVE FormData(_)
\* new FormData(form): the entries of the fields in tree order.
FormData(fields) ==
    IF fields = <<>> THEN <<>>
    ELSE FieldEntries(fields[1]) \o FormData(Tail(fields))

\* new URLSearchParams(formData): the same name-value pairs in the same order.
URLSearchParams(entries) == entries

\* The new pair is put in front.
ParamsAppend_InFront(params, name, value) == <<[name |-> name, value |-> value]>> \o params

\* params.append(name, value): a new pair at the end; existing pairs of the
\* same name stay.
ParamsAppend(params, name, value) == Append(params, [name |-> name, value |-> value])

\* application/x-www-form-urlencoded byte serialisation of one character.
EncodeChar(c) ==
    CASE c = " " -> <<"+">>
      [] c = "&" -> <<"%", "2", "6">>
      [] c = "=" -> <<"%", "3", "D">>
      [] c = "+" -> <<"%", "2", "B">>
      [] c = "%" -> <<"%", "2", "5">>
      [] c = "/" -> <<"%", "2", "F">>
      [] OTHER   -> <<c>>

RECURSIVE EncodeString(_)
EncodeString(str) ==
    IF str = <<>> THEN <<>> ELSE EncodeChar(str[1]) \o EncodeString(Tail(str))

RECURSIVE ParamsToString(_)
\* params.toString(): name=value pairs joined by '&'.
ParamsToString(params) ==
    IF params = <<>> THEN <<>>
    ELSE EncodeString(params[1].name) \o <<"=">> \o EncodeString(params[1].value)
         \o (IF Len(params) > 1 THEN <<"&">> ELSE <<>>)
         \o ParamsToString(Tail(params))

\* The URL the submit handler navigates to.
SubmitURL(f) ==
    LET formData == FormData(f.fields)
        params   == ParamsAppend(URLSearchParams(formData), STR_form_type, f.id)
    IN  STR_search \o <<"?">> \o ParamsToString(params)

\* 'submit' on the form.
FormSubmit ==
    /\ nav_count = 0
    /\ default_prevented' = TRUE
    /\ location' = SubmitURL(form)
    /\ nav_count' = nav_count + 1
    /\ UNCHANGED <<form, picked, setVars, toggleVars, checkVars>>

FieldOfKind(kind) == CHOOSE p \in 1..Len(form.fields) : form.fields[p].kind = kind

\* The user types a value into the text input.
UserTypesText ==
    \E v \in TextValues :
        /\ nav_count = 0
        /\ form' = [form EXCEPT !.fields[FieldOfKind("text")].value = v]
        /\ UNCHANGED <<picked, location, nav_count, default_prevented, setVars, toggleVars, checkVars>>

\* The user clicks the form's checkbox.
UserTogglesCheckbox ==
    /\ nav_count = 0
    /\ form' = [form EXCEPT !.fields[FieldOfKind("checkbox")].checked = ~@]
    /\ UNCHANGED <<picked, location, nav_count, default_prevented, setVars, toggleVars, checkVars>>

\* Sequence s without its element k.
Without(s, k) == SelectSeq(s, LAMBDA x : x # k)

\* The user clicks option k of the multi-select: selected if it was not, else deselected.
UserTogglesOption ==
    \E k \in RaceOptions :
        LET p   == FieldOfKind("select-multiple")
            was == k \in form.fields[p].selected
        IN  /\ nav_count = 0
            /\ form' = [form EXCEPT !.fields[p].selected = IF was THEN @ \ {k} ELSE @ \cup {k}]
            /\ picked' = IF was THEN Without(picked, k) ELSE Append(picked, k)
            /\ UNCHANGED <<location, nav_count, default_prevented, setVars, toggleVars, checkVars>>

InitForm ==
    /\ form \in [id : FormIds, fields : Layouts]
    /\ picked = <<>>
    /\ location = <<>>
    /\ nav_count = 0
    /\ default_prevented = FALSE

NextSearch ==
    \/ AdvancedSearchToggleClick
    \/ BasicSearchToggleClick
    \/ UserTypesText
    \/ UserTogglesCheckbox
    \/ UserTogglesOption
    \/ FormSubmit

InitSearchPage == SetsIdle /\ InitToggle /\ CheckIdle /\ InitForm

SpecSearch == InitSearchPage /\ [][NextSearch]_vars

----------------------------------------------------------------------------
(* Properties of form submission *)

\* The query string of the spec's example.
STR_example_url == <<"/", "s", "e", "a", "r", "c", "h", "/", "?", "g", "e", "n", "e", "r", "i", "c", "_", "t", "e", "x", "t", "=", "d", "r", "a", "g", "o", "n", "&", "r", "a", "c", "e", "=", "F", "i", "r", "e", "&", "r", "a", "c", "e", "=", "W", "i", "n", "d", "&", "f", "o", "r", "m", "_", "t", "y", "p", "e", "=", "b", "a", "s", "i", "c", "-", "f", "o", "r", "m">>

RECURSIVE SplitOn(_, _)
\* str.split(sep) for a one-character separator.
SplitOn(str, sep) ==
    LET p == IndexOf(str, sep)
    IN  IF p = 0 THEN <<str>>
        ELSE <<SubSeq(str, 1, p - 1)>> \o SplitOn(SubSeq(str, p + 1, Len(str)), sep)

\* The character a percent escape stands for.
DecodeEscape(hi, lo) ==
    CASE <<hi, lo>> = <<"2", "6">> -> "&"
      [] <<hi, lo>> = <<"3", "D">> -> "="
      [] <<hi, lo>> = <<"2", "B">> -> "+"
      [] <<hi, lo>> = <<"2", "5">> -> "%"
      [] <<hi, lo>> = <<"2", "F">> -> "/"
      [] OTHER -> "?"

RECURSIVE DecodeString(_)
\* Form-urlencoded decoding: '+' is a space, %XY the escaped character.
DecodeString(str) ==
    IF str = <<>> THEN <<>>
    ELSE IF str[1] = "+" THEN <<" ">> \o DecodeString(Tail(str))
    ELSE IF str[1] = "%" /\ Len(str) >= 3
         THEN <<DecodeEscape(str[2], str[3])>> \o DecodeString(SubSeq(str, 4, Len(str)))
    ELSE <<str[1]>> \o DecodeString(Tail(str))

\* One name=value piece of a query string, decoded.
ParsePair(piece) ==
    LET p == IndexOf(piece, "=")
    IN  IF p = 0 THEN [name |-> DecodeString(piece), value |-> <<>>]
        ELSE [name  |-> DecodeString(SubSeq(piece, 1, p - 1)),
              value |-> DecodeString(SubSeq(piece, p + 1, Len(piece)))]

\* The name-value pairs a server reads from the query string.
ParseQuery(query) ==
    IF query = <<>> THEN <<>>
    ELSE LET pieces == SplitOn(query, "&")
         IN  [n \in 1..Len(pieces) |-> ParsePair(pieces[n])]

UrlPrefix == STR_search \o <<"?">>

HasUrlPrefix(url) == Len(url) >= Len(UrlPrefix) /\ SubSeq(url, 1, Len(UrlPrefix)) = UrlPrefix

QueryOf(url) == SubSeq(url, Len(UrlPrefix) + 1, Len(url))

\* The selected options in document order.
DocumentOrder(selected) ==
    [n \in 1..Cardinality(selected) |->
        CHOOSE k \in selected : Cardinality({j \in selected : j < k}) = n - 1]

RECURSIVE EntriesInOrder(_, _)
\* The entries the fields are said to contribute, the multi-select's values
\* in the given order of options.
EntriesInOrder(fields, order) ==
    IF fields = <<>> THEN <<>>
    ELSE LET f == fields[1]
             own == CASE f.kind = "text" -> <<[name |-> f.name, value |-> f.value]>>
                      [] f.kind = "checkbox" /\ f.checked -> <<[name |-> f.name, value |-> f.value]>>
                      [] f.kind = "checkbox" /\ ~f.checked -> <<>>
                      [] f.kind = "select-multiple" ->
                            [n \in 1..Len(order) |-> [name |-> f.name, value |-> RaceValues[order[n]]]]
         IN  own \o EntriesInOrder(Tail(fields), order)

Submitted == nav_count > 0

\* What a submit does, the multi-select's entries being in the given order.
SubmitNavigatesTo(order) ==
    /\ default_prevented
    /\ nav_count = 1
    /\ HasUrlPrefix(location)
    /\ ParseQuery(QueryOf(location)) =
          Append(EntriesInOrder(form.fields, order), [name |-> STR_form_type, value |-> form.id])

\* C6 (as stated): on submit the default is suppressed and one navigation is
\* made to /search/?query, query listing the field entries in form order, a
\* multi-select's values in the order the user selected them, then form_type.
C6_QueryInSelectionOrder == Submitted => SubmitNavigatesTo(picked)

\* C6 (amended): the same, a multi-select's values being in the document
\* order of its options whatever the order the user selected them in.
C6_QueryInDocumentOrder ==
    Submitted => SubmitNavigatesTo(DocumentOrder({picked[n] : n \in 1..Len(picked)}))

\* The spec's example, the user having selected Wind before Fire.
C6_Witness_Example ==
    /\ Submitted
    /\ location = STR_example_url
    /\ picked = <<2, 1>>

Keys(pairs) == {pairs[n].name : n \in 1..Len(pairs)}

\* C7: an unchecked checkbox and a multi-select with no selected option
\* contribute no key to the submitted query (under the name form_type the
\* only entry is the appended form id).
C7_EmptyFieldsContributeNoKey ==
    Submitted =>
        LET q == ParseQuery(QueryOf(location))
        IN  \A p \in 1..Len(form.fields) :
                LET f == form.fields[p]
                IN  ((f.kind = "checkbox" /\ ~f.checked) \/
                     (f.kind = "select-multiple" /\ f.selected = {}))
                    => IF f.name = STR_form_type
                       THEN \A n \in 1..Len(q) : q[n].name = f.name => (n = Len(q) /\ q[n].value = form.id)
                       ELSE f.name \notin Keys(q)

\* A form submitted with its checkbox unchecked and nothing selected.
C7_Witness_EmptyFieldsSubmitted ==
    /\ Submitted
    /\ \E p \in 1..Len(form.fields) :
          form.fields[p].kind = "checkbox" /\ ~form.fields[p].checked /\ form.fields[p].name = STR_exact
    /\ \E p \in 1..Len(form.fields) :
          form.fields[p].kind = "select-multiple" /\ form.fields[p].selected = {}
    /\ \E p \in 1..Len(form.fields) :
          form.fields[p].kind = "text" /\ form.fields[p].value = STR_amp_eq

====
